---- MODULE Spec2Model ----
(***************************************************************************)
(* State-machine model of the LCA front end: the App component (history of *)
(* completed assessments, routing), the ComparisonTool page (selection,    *)
(* comparison request, comparison table), the assessment submission, the   *)
(* Dashboard statistics and the severity colours of the pages.             *)
(*                                                                         *)
(* JavaScript values are modelled as follows.                              *)
(*   - numbers are integers; Infinity is the sentinel Infinity below;      *)
(*   - null / undefined state is the empty sequence <<>>, a present value  *)
(*     v is the one-element sequence <<v>>;                                *)
(*   - an array is a sequence; array indices stay 0-based as in the        *)
(*     source, so element i of an array a is a[i + 1];                     *)
(*   - a results mapping is a function whose DOMAIN is its set of keys.    *)
(***************************************************************************)
EXTENDS Integers, Sequences, FiniteSets, TLC

VARIABLES
    assessmentHistory,     \* App: useState([])
    currentAssessment,     \* App: useState(null)
    route,                 \* the page the router shows
    crashed,               \* an uncaught error unmounted the React tree
    activeStep,            \* AssessmentForm: useState(0)
    formLoading,           \* AssessmentForm: loading
    formError,             \* AssessmentForm: error
    assessInFlight,        \* /api/assess requests not yet answered: the owner is "live"
                           \* or "stale"; overlapped: a completion was handled meanwhile
    formValues,            \* AssessmentForm: the values useForm holds for the fields
    metalsInFlight,        \* /api/metals requests of the mounted AssessmentForm
    availableAssessments,  \* ComparisonTool: useState([])
    selectedAssessments,   \* ComparisonTool: useState([])
    comparisonResults,     \* ComparisonTool: useState(null)
    loading,               \* ComparisonTool: useState(false)
    error,                 \* ComparisonTool: useState('')
    compareInFlight,       \* /api/compare requests of the mounted ComparisonTool
    completed,             \* every record handleAssessmentComplete received, newest first
    dashboardStats,        \* Dashboard: useState({totalAssessments: 0, ...})
    severity               \* a metric value and the colours the pages derive from it

vars == <<assessmentHistory, currentAssessment, route, crashed, activeStep,
          formLoading, formError, assessInFlight, formValues, metalsInFlight,
          availableAssessments, selectedAssessments, comparisonResults, loading, error, compareInFlight,
          completed, dashboardStats, severity>>

appVars == <<assessmentHistory, currentAssessment, completed>>
formVars == <<activeStep, formLoading, formError, assessInFlight, formValues,
              metalsInFlight>>
toolVars == <<availableAssessments, selectedAssessments, comparisonResults,
              loading, error, compareInFlight>>
viewVars == <<dashboardStats, severity>>

----------------------------------------------------------------------------
(* Bounds of the model *)

\* most records a parent hands to the ComparisonTool in the component specification
MaxToolHistory == 5
\* most /api/compare requests in flight at once
MaxCompareInFlight == 1
\* most /api/assess requests in flight at once
MaxAssessInFlight == 2
\* most assessments completed in a session of the application
MaxCompleted == 11
\* largest metric value given a severity colour
MaxSeverityValue == 210

----------------------------------------------------------------------------
(* JavaScript values *)

Null == <<>>
Some(v) == <<v>>

\* JavaScript's Infinity: larger than every metric value of the model
Infinity == 1000000

\* a[i] of a JavaScript array with a 0-based index; <<>> stands for undefined
At(a, i) == IF i >= 0 /\ i < Len(a) THEN Some(a[i + 1]) ELSE Null

Range(s) == {s[i] : i \in 1..Len(s)}

----------------------------------------------------------------------------
(* Metric tables of ComparisonTool *)

\* getMetricColor: const lowerIsBetter
lowerIsBetter == {"carbon_footprint", "energy_consumption", "water_usage", "waste_generation"}

\* getMetricColor: const higherIsBetter
higherIsBetter == {"sustainability_score", "circularity_index", "material_efficiency", "recycling_potential"}

\* renderComparisonTable: const metrics (the rows of the table, in order)
metrics == <<"carbon_footprint", "energy_consumption", "water_usage",
             "sustainability_score", "circularity_index", "material_efficiency">>

\* the keys for which renderComparisonTable takes Math.min
minMetrics == {"carbon_footprint", "energy_consumption", "water_usage"}

----------------------------------------------------------------------------
(* Pure functions of ComparisonTool *)

\* availableAssessments[index].results[metric.key] || 0
ValueOf(assessment, key) ==
    IF key \in DOMAIN assessment.results /\ assessment.results[key] # 0
    THEN assessment.results[key]
    ELSE 0

\* selectedAssessments.map(index => availableAssessments[index].results[metric.key] || 0)
\* over the records the selection denotes
ValuesOf(key, assessments) ==
    [i \in 1..Len(assessments) |-> ValueOf(assessments[i], key)]

\* Math.min(...values); Math.min() is Infinity
MathMin(values) ==
    IF Len(values) = 0 THEN Infinity
    ELSE CHOOSE v \in Range(values) : \A w \in Range(values) : v <= w

\* Math.max(...values); Math.max() is -Infinity
MathMax(values) ==
    IF Len(values) = 0 THEN -Infinity
    ELSE CHOOSE v \in Range(values) : \A w \in Range(values) : v >= w

\* bestValue with energy_consumption and water_usage left out of the test
BestValueCarbonOnly(key, values) ==
    IF key = "carbon_footprint" THEN MathMin(values) ELSE MathMax(values)

\* bestValue with Math.max taken for every metric
BestValueAlwaysMax(key, values) == MathMax(values)

\* bestValue of a row
BestValue(key, values) ==
    IF key \in minMetrics THEN MathMin(values) ELSE MathMax(values)

RECURSIVE IndexOfFrom(_, _, _)
\* Array.prototype.indexOf scanning from position k (0-based), -1 when absent
IndexOfFrom(values, x, k) ==
    IF k >= Len(values) THEN -1
    ELSE IF values[k + 1] = x THEN k
    ELSE IndexOfFrom(values, x, k + 1)

\* values.indexOf(bestValue, 1): the scan started one position late
IndexOfSkippingFirst(values, x) == IndexOfFrom(values, x, 1)

RECURSIVE LastIndexOfFrom(_, _, _)
LastIndexOfFrom(values, x, k) ==
    IF k < 0 THEN -1
    ELSE IF values[k + 1] = x THEN k
    ELSE LastIndexOfFrom(values, x, k - 1)

\* values.lastIndexOf(bestValue)
LastIndexOf(values, x) == LastIndexOfFrom(values, x, Len(values) - 1)

\* values.indexOf(x)
IndexOf(values, x) == IndexOfFrom(values, x, 0)

\* getMetricColor with the cutoffs taken inclusively (<= 50, <= 100, >= 80, >= 60)
getMetricColorInclusive(value, metric) ==
    IF metric \in lowerIsBetter
    THEN (IF value <= 50 THEN "success" ELSE IF value <= 100 THEN "warning" ELSE "error")
    ELSE IF metric \in higherIsBetter
    THEN (IF value >= 80 THEN "success" ELSE IF value >= 60 THEN "warning" ELSE "error")
    ELSE "primary"

\* getMetricColor(value, metric)
getMetricColor(value, metric) ==
    IF metric \in lowerIsBetter
    THEN (IF value < 50 THEN "success" ELSE IF value < 100 THEN "warning" ELSE "error")
    ELSE IF metric \in higherIsBetter
    THEN (IF value > 80 THEN "success" ELSE IF value > 60 THEN "warning" ELSE "error")
    ELSE "primary"

\* getImprovementIcon: const improvement = ((baseline - current) / baseline) * 100,
\* kept as the fraction num / den.  den = 0 is the IEEE division by zero:
\* num < 0 is -Infinity, num = 0 is NaN, num > 0 is +Infinity.
Improvement(current, baseline) ==
    [num |-> (baseline - current) * 100, den |-> baseline]

\* improvement > k for a fraction with den >= 0 (NaN compares false)
FracGreater(f, k) == IF f.den = 0 THEN f.num > 0 ELSE f.num > k * f.den

\* improvement < k for a fraction with den >= 0 (NaN compares false)
FracLess(f, k) == IF f.den = 0 THEN f.num < 0 ELSE f.num < k * f.den

\* getImprovementIcon(current, baseline)
getImprovementIcon(current, baseline) ==
    LET improvement == Improvement(current, baseline)
    IN  IF FracGreater(improvement, 5) THEN "TrendingUp"
        ELSE IF FracLess(improvement, -5) THEN "TrendingDown"
        ELSE "Remove"

----------------------------------------------------------------------------
(* The comparison table rendered by renderComparisonTable *)

\* selectedAssessments.map(index => availableAssessments[index]); an index
\* outside the array yields undefined (Null)
SelectedData(available, selected) ==
    [i \in 1..Len(selected) |-> At(available, selected[i])]

\* the records a selection denotes, when every index is inside the array
SelectedRecords(available, selected) ==
    [i \in 1..Len(selected) |-> available[selected[i] + 1]]

\* one <TableRow> of renderComparisonTable: the values of the metric in
\* selection order, the best value and its index, the colour of each chip,
\* the improvement computed for each non-baseline cell and its icon, and the
\* label of the "Best" cell
Row(key, assessments, selected) ==
    LET values == ValuesOf(key, assessments)
        bestValue == BestValue(key, values)
        bestIndex == IndexOf(values, bestValue)
    IN  [values      |-> values,
         bestValue   |-> bestValue,
         bestIndex   |-> bestIndex,
         chipColor   |-> [i \in 1..Len(values) |->
                            IF i - 1 = bestIndex THEN "success"
                            ELSE getMetricColor(values[i], key)],
         improvement |-> [i \in 1..Len(values) |->
                            IF i - 1 > 0 THEN Some(Improvement(values[i], values[1]))
                            ELSE Null],
         icon        |-> [i \in 1..Len(values) |->
                            IF i - 1 > 0 THEN Some(getImprovementIcon(values[i], values[1]))
                            ELSE Null],
         bestLabel   |-> IF At(selected, bestIndex) # Null
                         THEN <<"Option", bestIndex + 1>>
                         ELSE <<"N/A">>]

\* the <TableBody>: one row per entry of metrics
TableOf(assessments, selected) ==
    [k \in Range(metrics) |-> Row(k, assessments, selected)]

----------------------------------------------------------------------------
(* ComparisonEngine of the specification: overall ranking.  The front end  *)
(* posts the selected records to /api/compare and shows the response; the  *)
(* ranking below is the response the specification describes.              *)

\* the per-metric winner of a list of records
BestIndexOf(key, assessments) ==
    LET values == ValuesOf(key, assessments)
    IN  IndexOf(values, BestValue(key, values))

\* win count that credits a metric to every record achieving its best value
WinCountAllTied(i, assessments) ==
    Cardinality({k \in Range(metrics) :
        LET values == ValuesOf(k, assessments)
        IN  values[i + 1] = BestValue(k, values)})

\* win count of record i (0-based): the metrics whose per-metric best it is
WinCount(i, assessments) ==
    Cardinality({k \in Range(metrics) : BestIndexOf(k, assessments) = i})

\* record i beats record b: more wins, or as many wins and less carbon
Beats(i, b, assessments) ==
    \/ WinCount(i, assessments) > WinCount(b, assessments)
    \/ /\ WinCount(i, assessments) = WinCount(b, assessments)
       /\ ValueOf(assessments[i + 1], "carbon_footprint")
            < ValueOf(assessments[b + 1], "carbon_footprint")

RECURSIVE OverallBestFrom(_, _, _)
\* scan of the records from index i with the best record so far
OverallBestFrom(assessments, i, best) ==
    IF i >= Len(assessments) THEN best
    ELSE OverallBestFrom(assessments, i + 1,
                         IF Beats(i, best, assessments) THEN i ELSE best)

\* overall best record: highest win count, then lowest carbon_footprint,
\* then lowest input index
OverallBest(assessments) == OverallBestFrom(assessments, 1, 0)

\* the contract of compare: 2 to 4 records, each with a non-empty results mapping
ValidRequest(data) ==
    /\ Len(data) >= 2
    /\ Len(data) <= 4
    /\ \A i \in 1..Len(data) :
          /\ data[i] # Null
          /\ data[i][1].hasResults
          /\ DOMAIN data[i][1].results # {}

\* the ComparisonResult of a valid request
Compare(data) ==
    LET assessments == [i \in 1..Len(data) |-> data[i][1]]
        best == OverallBest(assessments)
    IN  [assessments  |-> assessments,
         overall_best |-> best,
         win_count    |-> [i \in 1..Len(data) |-> WinCount(i - 1, assessments)],
         recommendations |->
             Some([metal_type       |-> assessments[best + 1].metal_type,
                   production_route |-> assessments[best + 1].production_route,
                   wins             |-> WinCount(best, assessments)])]

----------------------------------------------------------------------------
(* Assessment records: the inputs of the model *)

\* an AssessmentRecord as /api/assess returns it; hasResults is FALSE when
\* the record carries no results property at all
Record(metal, productionRoute, hasResults, results) ==
    [metal_type |-> metal, production_route |-> productionRoute,
     hasResults |-> hasResults, results |-> results]

lowKeys == {"carbon_footprint", "energy_consumption", "water_usage"}
highKeys == {"sustainability_score", "circularity_index", "material_efficiency"}

\* a results mapping that gives the value lo[1] to the lower-is-better metrics
\* and hi[1] to the higher-is-better ones; Null leaves the keys out
TableResults(lo, hi) ==
    [k \in (IF lo = Null THEN {} ELSE lowKeys) \cup (IF hi = Null THEN {} ELSE highKeys)
        |-> IF k \in lowKeys THEN lo[1] ELSE hi[1]]

LoChoices == {Null, <<0>>, <<40>>, <<80>>}
HiChoices == {Null, <<60>>, <<85>>}

RecNoResults == Record("zinc", "hybrid", FALSE, [k \in {} |-> 0])

\* the records the table specification draws its inputs from
TableCatalog ==
    {Record("steel", "primary", TRUE, TableResults(lo, hi)) : lo \in LoChoices, hi \in HiChoices}
        \cup {RecNoResults}

\* the three records of the end-to-end example of the specification: carbon
\* footprint 80, 40, 60, sustainability score 70, 85, 60, and every other
\* metric of the table equal across the records (or absent from all of them)
ExampleResults(carbon, sustainability, others) ==
    [k \in {"carbon_footprint", "sustainability_score"} \cup DOMAIN others |->
        IF k = "carbon_footprint" THEN carbon
        ELSE IF k = "sustainability_score" THEN sustainability
        ELSE others[k]]

OtherKeys == {"energy_consumption", "water_usage", "circularity_index", "material_efficiency"}

\* the values the other metrics take in the example
OtherChoices == {[k \in present |-> v] : present \in SUBSET OtherKeys, v \in {0, 50}}

ExampleRecords(others) ==
    <<Record("aluminum", "primary", TRUE, ExampleResults(80, 70, others)),
      Record("aluminum", "secondary", TRUE, ExampleResults(40, 85, others)),
      Record("aluminum", "hybrid", TRUE, ExampleResults(60, 60, others))>>

RecA ==
    Record("aluminum", "primary", TRUE,
           [carbon_footprint |-> 80, energy_consumption |-> 50, water_usage |-> 30,
            sustainability_score |-> 70, circularity_index |-> 1, material_efficiency |-> 90])

RecEmpty == Record("copper", "primary", TRUE, [k \in {} |-> 0])

\* the records a completed assessment may be
Catalog == {RecA, RecEmpty}

\* three records that differ in every metric they carry, the third with a
\* zero carbon footprint and without the higher-is-better metrics
RecSteel == Record("steel", "primary", TRUE, TableResults(<<80>>, <<60>>))
RecCopper == Record("copper", "secondary", TRUE, TableResults(<<40>>, <<85>>))
RecZinc == Record("zinc", "hybrid", TRUE, TableResults(<<0>>, Null))

\* the history of the selection specification: one record has no results
SelectHistory == <<RecSteel, RecNoResults, RecCopper, RecZinc>>

\* the records that arrive in the specification of the handlers
HandlerCatalog == {RecA}

----------------------------------------------------------------------------
(* ComparisonTool *)

RECURSIVE Filter(_, _)
\* Array.prototype.filter with the predicate of the useEffect:
\* assessment.results && Object.keys(assessment.results).length > 0
Filter(history, k) ==
    IF k > Len(history) THEN <<>>
    ELSE (IF history[k].hasResults /\ Cardinality(DOMAIN history[k].results) > 0
          THEN <<history[k]>> ELSE <<>>) \o Filter(history, k + 1)

\* the filter without the test on the number of keys
FilterHasResults(history) ==
    SelectSeq(history, LAMBDA a : a.hasResults)

\* const validAssessments of the useEffect
ValidAssessments(history) == Filter(history, 1)

\* selectedAssessments.includes(assessmentIndex)
Includes(selected, assessmentIndex) == assessmentIndex \in Range(selected)

\* rendering the page throws: a selected index denotes no available record
\* (availableAssessments[index] is undefined and its metal_type is read);
\* nothing that indexes is rendered while availableAssessments is empty
RenderThrows(available, selected) ==
    /\ Len(available) > 0
    /\ \E i \in 1..Len(selected) : At(available, selected[i]) = Null

ToolMounted == route = "/compare" /\ ~crashed

\* handleAddAssessment with the bound on the selection off by one
handleAddAssessmentUpTo5(assessmentIndex) ==
    /\ IF Len(selectedAssessments) <= 4 /\ ~Includes(selectedAssessments, assessmentIndex)
       THEN selectedAssessments' = Append(selectedAssessments, assessmentIndex)
       ELSE UNCHANGED selectedAssessments
    /\ crashed' = RenderThrows(availableAssessments, selectedAssessments')
    /\ UNCHANGED <<appVars, route, formVars, availableAssessments, comparisonResults,
                   loading, error, compareInFlight>>
    /\ UNCHANGED viewVars

\* handleAddAssessment putting the new index first: [assessmentIndex, ...prev]
handleAddAssessmentFirst(assessmentIndex) ==
    /\ IF Len(selectedAssessments) < 4 /\ ~Includes(selectedAssessments, assessmentIndex)
       THEN selectedAssessments' = <<assessmentIndex>> \o selectedAssessments
       ELSE UNCHANGED selectedAssessments
    /\ crashed' = RenderThrows(availableAssessments, selectedAssessments')
    /\ UNCHANGED <<appVars, route, formVars, availableAssessments, comparisonResults,
                   loading, error, compareInFlight>>
    /\ UNCHANGED viewVars

\* handleAddAssessment(assessmentIndex)
handleAddAssessment(assessmentIndex) ==
    /\ IF Len(selectedAssessments) < 4 /\ ~Includes(selectedAssessments, assessmentIndex)
       THEN selectedAssessments' = Append(selectedAssessments, assessmentIndex)
       ELSE UNCHANGED selectedAssessments
    /\ crashed' = RenderThrows(availableAssessments, selectedAssessments')
    /\ UNCHANGED <<appVars, route, formVars, availableAssessments, comparisonResults,
                   loading, error, compareInFlight>>
    /\ UNCHANGED viewVars

\* handleRemoveAssessment(assessmentIndex)
handleRemoveAssessment(assessmentIndex) ==
    /\ selectedAssessments' = SelectSeq(selectedAssessments, LAMBDA index : index # assessmentIndex)
    /\ comparisonResults' = Null
    /\ crashed' = RenderThrows(availableAssessments, selectedAssessments')
    /\ UNCHANGED <<appVars, route, formVars, availableAssessments, loading, error,
                   compareInFlight, viewVars>>

SelectError == "Please select at least 2 assessments to compare"

\* runComparison with the guard off by one
runComparisonAtLeast1 ==
    /\ IF Len(selectedAssessments) < 1
       THEN /\ error' = SelectError
            /\ UNCHANGED <<loading, compareInFlight>>
       ELSE /\ Len(compareInFlight) < MaxCompareInFlight
            /\ loading' = TRUE
            /\ error' = ""
            /\ compareInFlight' =
                 Append(compareInFlight, SelectedData(availableAssessments, selectedAssessments))
    /\ UNCHANGED <<appVars, route, crashed, formVars, availableAssessments,
                   selectedAssessments, comparisonResults, viewVars>>

\* runComparison, up to the await of axios.post
runComparison ==
    /\ IF Len(selectedAssessments) < 2
       THEN /\ error' = SelectError
            /\ UNCHANGED <<loading, compareInFlight>>
       ELSE /\ Len(compareInFlight) < MaxCompareInFlight
            /\ loading' = TRUE
            /\ error' = ""
            /\ compareInFlight' =
                 Append(compareInFlight, SelectedData(availableAssessments, selectedAssessments))
    /\ UNCHANGED <<appVars, route, crashed, formVars, availableAssessments,
                   selectedAssessments, comparisonResults, viewVars>>

RemoveAt(s, k) == SubSeq(s, 1, k - 1) \o SubSeq(s, k + 1, Len(s))

\* runComparison after the await: the response of request k arrived
\* (setComparisonResults(response.data); finally setLoading(false))
CompareSuccess(k) ==
    /\ ToolMounted
    /\ k \in 1..Len(compareInFlight)
    /\ ValidRequest(compareInFlight[k])
    /\ comparisonResults' = Some(Compare(compareInFlight[k]))
    /\ loading' = FALSE
    /\ compareInFlight' = RemoveAt(compareInFlight, k)
    /\ UNCHANGED <<appVars, route, crashed, formVars, availableAssessments,
                   selectedAssessments, error, viewVars>>

CompareErrors == {"An error occurred during comparison"}

\* runComparison after the await: request k failed
\* (catch: setError(...); finally setLoading(false))
CompareFailure(k, message) ==
    /\ ToolMounted
    /\ k \in 1..Len(compareInFlight)
    /\ error' = message
    /\ loading' = FALSE
    /\ compareInFlight' = RemoveAt(compareInFlight, k)
    /\ UNCHANGED <<appVars, route, crashed, formVars, availableAssessments,
                   selectedAssessments, comparisonResults, viewVars>>

\* the Add button of an available assessment is shown and enabled
AddEnabled(index) ==
    /\ index \in 0..(Len(availableAssessments) - 1)
    /\ ~Includes(selectedAssessments, index)
    /\ ~(Len(selectedAssessments) >= 4)

\* the Delete button or the chip of a selected assessment is shown
RemoveEnabled(index) ==
    /\ Len(availableAssessments) > 0
    /\ Includes(selectedAssessments, index)

\* the Run Comparison button is shown and enabled
CompareEnabled ==
    /\ Len(availableAssessments) > 0
    /\ ~(Len(selectedAssessments) < 2 \/ loading)

ClickAdd(index) == ToolMounted /\ AddEnabled(index) /\ handleAddAssessment(index)

ClickRemove(index) == ToolMounted /\ RemoveEnabled(index) /\ handleRemoveAssessment(index)

ClickCompare == ToolMounted /\ CompareEnabled /\ runComparison

\* the state of a freshly mounted ComparisonTool, before its effect
ToolInitial ==
    /\ availableAssessments' = <<>>
    /\ selectedAssessments' = <<>>
    /\ comparisonResults' = Null
    /\ loading' = FALSE
    /\ error' = ""
    /\ compareInFlight' = <<>>

\* ComparisonTool is mounted with the props given (Null: no assessmentHistory
\* prop) and its useEffect runs: assessmentHistory.filter throws on undefined
MountComparisonTool(props) ==
    IF props = Null
    THEN ToolInitial /\ crashed' = TRUE
    ELSE /\ availableAssessments' = ValidAssessments(props[1])
         /\ selectedAssessments' = <<>>
         /\ comparisonResults' = Null
         /\ loading' = FALSE
         /\ error' = ""
         /\ compareInFlight' = <<>>
         /\ crashed' = FALSE

\* the comparison table is on screen
TableShown == ToolMounted /\ comparisonResults # Null

\* the <li> items of the Recommendations tab
KeyRecommendations ==
    <<"Consider switching to the pathway with the highest sustainability score",
      "Focus on improving circularity metrics through increased recycled content",
      "Optimize energy consumption by using renewable energy sources",
      "Implement water conservation measures to reduce environmental impact">>

\* a field of the response is truthy: it is present
Truthy(v) == v # Null

\* the Recommendations tab without the alert of the response
RecommendationsTabFixedOnly ==
    [bullets |-> KeyRecommendations, dynamic |-> <<>>]

\* the Recommendations tab: the fixed list, then
\* comparisonResults.recommendations in an alert of its own when it is truthy
RecommendationsTab ==
    [bullets |-> KeyRecommendations,
     dynamic |-> IF Truthy(comparisonResults[1].recommendations)
                 THEN <<comparisonResults[1].recommendations[1]>>
                 ELSE <<>>]

\* renderComparisonTable reading the records of the last response instead
\* of the current selection
TableOfResponse == TableOf(comparisonResults[1].assessments, selectedAssessments)

\* what renderComparisonTable returns in the current state
Table ==
    TableOf(SelectedRecords(availableAssessments, selectedAssessments), selectedAssessments)

----------------------------------------------------------------------------
(* Dashboard *)

\* a JavaScript number that is the quotient num / den; den = 0 is the IEEE
\* division by zero (0 / 0 is NaN)
Quotient(num, den) == [num |-> num, den |-> den]

\* useState of Dashboard: every statistic is the number 0
InitialStats ==
    [totalAssessments       |-> 0,
     avgCarbonFootprint     |-> Quotient(0, 1),
     avgSustainabilityScore |-> Quotient(0, 1),
     avgCircularityIndex    |-> Quotient(0, 1)]

\* (assessment.results || {})[key] || 0
StatValue(assessment, key) ==
    IF assessment.hasResults /\ key \in DOMAIN assessment.results
    THEN assessment.results[key]
    ELSE 0

\* the reducer of the useEffect counting only the records whose results
\* mapping has at least one key
AccumulateValidOnly(acc, assessment) ==
    IF assessment.hasResults /\ DOMAIN assessment.results # {}
    THEN [totalAssessments       |-> acc.totalAssessments + 1,
          avgCarbonFootprint     |-> acc.avgCarbonFootprint + StatValue(assessment, "carbon_footprint"),
          avgSustainabilityScore |-> acc.avgSustainabilityScore + StatValue(assessment, "sustainability_score"),
          avgCircularityIndex    |-> acc.avgCircularityIndex + StatValue(assessment, "circularity_index")]
    ELSE acc

\* the reducer of the useEffect: (acc, assessment) => ({...})
Accumulate(acc, assessment) ==
    [totalAssessments       |-> acc.totalAssessments + 1,
     avgCarbonFootprint     |-> acc.avgCarbonFootprint + StatValue(assessment, "carbon_footprint"),
     avgSustainabilityScore |-> acc.avgSustainabilityScore + StatValue(assessment, "sustainability_score"),
     avgCircularityIndex    |-> acc.avgCircularityIndex + StatValue(assessment, "circularity_index")]

RECURSIVE Reduce(_, _, _)
\* assessmentHistory.reduce(reducer, acc) from position k (1-based)
Reduce(history, k, acc) ==
    IF k > Len(history) THEN acc
    ELSE Reduce(history, k + 1, Accumulate(acc, history[k]))

\* the object given to setDashboardStats
StatsOf(history) ==
    LET stats == Reduce(history, 1,
                        [totalAssessments |-> 0, avgCarbonFootprint |-> 0,
                         avgSustainabilityScore |-> 0, avgCircularityIndex |-> 0])
    IN  [totalAssessments       |-> stats.totalAssessments,
         avgCarbonFootprint     |-> Quotient(stats.avgCarbonFootprint, stats.totalAssessments),
         avgSustainabilityScore |-> Quotient(stats.avgSustainabilityScore, stats.totalAssessments),
         avgCircularityIndex    |-> Quotient(stats.avgCircularityIndex, stats.totalAssessments)]

\* the useEffect without the test on the length of the history
DashboardEffectUnguarded(stats, history) == StatsOf(history)

\* the useEffect as a running update: the newest record is folded into the
\* statistics shown before
DashboardEffectIncremental(stats, history) ==
    IF Len(history) > 0
    THEN LET n == stats.totalAssessments + 1
             Fold(avg, key) == Quotient(avg.num + StatValue(history[1], key), n)
         IN  [totalAssessments       |-> n,
              avgCarbonFootprint     |-> Fold(stats.avgCarbonFootprint, "carbon_footprint"),
              avgSustainabilityScore |-> Fold(stats.avgSustainabilityScore, "sustainability_score"),
              avgCircularityIndex    |-> Fold(stats.avgCircularityIndex, "circularity_index")]
    ELSE stats

\* the useEffect of Dashboard on [assessmentHistory], given the statistics in
\* state: the value of dashboardStats after it ran
DashboardEffect(stats, history) ==
    IF Len(history) > 0 THEN StatsOf(history) ELSE stats

\* Dashboard is mounted with the assessmentHistory prop and its effect runs
MountDashboard(history) ==
    dashboardStats' = DashboardEffect(InitialStats, history)

\* the Dashboard is on screen
DashboardMounted == route = "/" /\ ~crashed

----------------------------------------------------------------------------
(* Severity colours *)

\* no value has been given a colour
NoSeverity == [value |-> 0, metric |-> "", chip |-> Null, impact |-> Null, gauge |-> Null]

\* Dashboard: getImpactColor(value, type); value > 0.8 on an integer is
\* value * 10 > 8
getImpactColor(value, type) ==
    IF type = "carbon"
    THEN (IF value < 50 THEN "success" ELSE IF value < 200 THEN "warning" ELSE "error")
    ELSE IF type = "sustainability" \/ type = "circularity"
    THEN (IF value * 10 > 8 \/ value > 80 THEN "success"
          ELSE IF value * 10 > 6 \/ value > 60 THEN "warning"
          ELSE "error")
    ELSE "primary"

\* the type under which getImpactColor knows a metric
ImpactType ==
    [k \in {"carbon_footprint", "sustainability_score", "circularity_index"} |->
        IF k = "carbon_footprint" THEN "carbon"
        ELSE IF k = "sustainability_score" THEN "sustainability"
        ELSE "circularity"]

\* VisualizationDashboard, renderSustainabilityMetrics: the metrics with a gauge
GaugeMetrics ==
    {"sustainability_score", "circularity_index", "material_efficiency", "recycling_potential"}

\* the value of a gauge: the circularity index is multiplied by 100
GaugeValue(metric, value) == IF metric = "circularity_index" THEN value * 100 ELSE value

\* the bar colour of a gauge
GaugeColor(value) ==
    IF value > 80 THEN "#4caf50" ELSE IF value > 60 THEN "#ff9800" ELSE "#f44336"

\* the comparison table colours a chip that is not the best of its row
RenderChip ==
    /\ severity.metric \in lowerIsBetter \cup higherIsBetter
    /\ severity.chip = Null
    /\ severity' = [severity EXCEPT !.chip = Some(getMetricColor(severity.value, severity.metric))]
    /\ UNCHANGED <<appVars, route, crashed, formVars, toolVars, dashboardStats>>

\* the Dashboard colours the value
RenderImpact ==
    /\ severity.metric \in DOMAIN ImpactType
    /\ severity.impact = Null
    /\ severity' = [severity EXCEPT
                       !.impact = Some(getImpactColor(severity.value, ImpactType[severity.metric]))]
    /\ UNCHANGED <<appVars, route, crashed, formVars, toolVars, dashboardStats>>

\* the VisualizationDashboard draws the gauge of the value
RenderGauge ==
    /\ severity.metric \in GaugeMetrics
    /\ severity.gauge = Null
    /\ severity' = [severity EXCEPT
                       !.gauge = Some(GaugeColor(GaugeValue(severity.metric, severity.value)))]
    /\ UNCHANGED <<appVars, route, crashed, formVars, toolVars, dashboardStats>>

----------------------------------------------------------------------------
(* AssessmentForm: the fields of the wizard and their rules *)

\* steps: 'Basic Information', 'Production Details', 'Environmental Data',
\* 'Review & Submit', by index
BasicInfo == 0
ProductionDetails == 1
EnvironmentalData == 2
Review == 3

\* the fields that carry validation rules: a select holds '' or one of its
\* options, a number field holds Null (the empty string) or a number
Fields == {"metal_type", "production_route", "quantity", "energy_consumption"}

\* useForm({ defaultValues }): every field starts as ''
defaultValues ==
    [metal_type |-> "", production_route |-> "", quantity |-> Null,
     energy_consumption |-> Null]

\* the step whose content renders the Controller of a field
StepOf(name) ==
    IF name = "energy_consumption" THEN ProductionDetails ELSE BasicInfo

\* what the user can put into a field
InputsOf(name) ==
    CASE name = "metal_type" -> {"steel"}
      [] name = "production_route" -> {"primary"}
      [] name = "quantity" -> {Null, Some(0), Some(5)}
      [] name = "energy_consumption" -> {Null, Some(15)}

\* the rules prop of a field's Controller: required, and min 0.1 on quantity
Valid(name, value) ==
    CASE name = "metal_type" -> value # ""
      [] name = "production_route" -> value # ""
      [] name = "quantity" -> value # Null /\ value[1] * 10 >= 1
      [] name = "energy_consumption" -> value # Null

\* the rules of the fields of a step hold
StepValid(step, values) ==
    \A name \in Fields : StepOf(name) = step => Valid(name, values[name])

\* the user changes a field of the step on screen (field.onChange); a new
\* truthy metal type starts fetchMetalProperties
SetValue(name, value) ==
    /\ ~crashed /\ route = "/assess"
    /\ activeStep = StepOf(name)
    /\ value # formValues[name]
    /\ formValues' = [formValues EXCEPT ![name] = value]
    /\ metalsInFlight' =
          IF name = "metal_type" /\ value # ""
          THEN Append(metalsInFlight, value)
          ELSE metalsInFlight
    /\ UNCHANGED <<appVars, route, crashed, activeStep, formLoading, formError,
                   assessInFlight, toolVars, viewVars>>

\* what /api/metals answers as typical_energy_consumption: nothing (or the
\* request fails and the catch only logs), or a value
TypicalEnergy == {Null, Some(15)}

\* fetchMetalProperties after the await: the typical value is filled in
MetalPropertiesArrive(k, typical) ==
    /\ ~crashed /\ route = "/assess"
    /\ k \in 1..Len(metalsInFlight)
    /\ metalsInFlight' = RemoveAt(metalsInFlight, k)
    /\ formValues' =
          IF Truthy(typical)
          THEN [formValues EXCEPT !.energy_consumption = typical]
          ELSE formValues
    /\ UNCHANGED <<appVars, route, crashed, activeStep, formLoading, formError,
                   assessInFlight, toolVars, viewVars>>

----------------------------------------------------------------------------
(* App *)

Routes == {"/", "/assess", "/compare", "/visualize", "/reports", "/help"}

\* prev.slice(0, 10): one record too many is kept
Slice10(prev) == SubSeq(prev, 1, IF Len(prev) < 10 THEN Len(prev) ELSE 10)

\* prev.slice(0, 9)
Slice9(prev) == SubSeq(prev, 1, IF Len(prev) < 9 THEN Len(prev) ELSE 9)

\* handleAssessmentComplete stripping the results of the records it keeps:
\* prev.slice(0, 9).map(a => { delete a.results; return a; })
handleAssessmentCompleteStripping(assessmentData) ==
    /\ currentAssessment' = Some(assessmentData)
    /\ assessmentHistory' =
          <<assessmentData>> \o
          [i \in 1..Len(Slice9(assessmentHistory)) |->
              [assessmentHistory[i] EXCEPT !.hasResults = FALSE, !.results = [k \in {} |-> 0]]]
    /\ completed' = <<assessmentData>> \o completed

\* handleAssessmentComplete without setCurrentAssessment(assessmentData)
handleAssessmentCompleteHistoryOnly(assessmentData) ==
    /\ UNCHANGED currentAssessment
    /\ assessmentHistory' = <<assessmentData>> \o Slice9(assessmentHistory)
    /\ completed' = <<assessmentData>> \o completed

\* handleAssessmentComplete(assessmentData): the two state updates of App
handleAssessmentComplete(assessmentData) ==
    /\ currentAssessment' = Some(assessmentData)
    /\ assessmentHistory' = <<assessmentData>> \o Slice9(assessmentHistory)
    /\ completed' = <<assessmentData>> \o completed

\* the pages that show one assessment, and the useEffect by which they pick
\* it from their props: the current assessment, else the last element of
\* the history, else nothing is set
SelectingRoutes == {"/visualize", "/reports"}

SelectedAssessmentEffect(current, history) ==
    IF Truthy(current)
    THEN [branch |-> "current", selectedAssessment |-> current]
    ELSE IF Len(history) > 0
         THEN [branch |-> "last", selectedAssessment |-> Some(history[Len(history)])]
         ELSE [branch |-> "none", selectedAssessment |-> Null]

\* the props App gives to ComparisonTool: <ComparisonTool /> passes none
ComparisonToolProps == Null

\* the page at the current route is unmounted: its state is discarded, and
\* the answers to its requests will find no component to update
UnmountPage ==
    /\ activeStep' = 0
    /\ formLoading' = FALSE
    /\ formError' = ""
    /\ assessInFlight' = [i \in 1..Len(assessInFlight) |->
                             [assessInFlight[i] EXCEPT !.owner = "stale"]]
    /\ formValues' = defaultValues
    /\ metalsInFlight' = <<>>

\* a navigation tab is chosen: the current page is unmounted and the page of
\* route r is mounted
Navigate(r) ==
    /\ ~crashed
    /\ r \in Routes \ {route}
    /\ route' = r
    /\ UnmountPage
    /\ IF r = "/compare"
       THEN MountComparisonTool(ComparisonToolProps)
       ELSE ToolInitial /\ crashed' = FALSE
    /\ IF r = "/"
       THEN MountDashboard(assessmentHistory)
       ELSE dashboardStats' = InitialStats
    /\ UNCHANGED <<appVars, severity>>

\* the Next button shown on the last step as well
ClickNextOnEveryStep ==
    /\ ~crashed /\ route = "/assess"
    /\ activeStep' = activeStep + 1
    /\ UNCHANGED <<appVars, route, crashed, formLoading, formError, assessInFlight,
                   formValues, metalsInFlight, toolVars, viewVars>>

\* the Next button of the wizard (shown on every step but the last): handleNext
ClickNext ==
    /\ ~crashed /\ route = "/assess"
    /\ activeStep # 3
    /\ activeStep' = activeStep + 1
    /\ UNCHANGED <<appVars, route, crashed, formLoading, formError, assessInFlight,
                   formValues, metalsInFlight, toolVars, viewVars>>

\* the Back button of the wizard (disabled on step 0): handleBack
ClickBack ==
    /\ ~crashed /\ route = "/assess"
    /\ activeStep # 0
    /\ activeStep' = activeStep - 1
    /\ UNCHANGED <<appVars, route, crashed, formLoading, formError, assessInFlight,
                   formValues, metalsInFlight, toolVars, viewVars>>

\* the Run Assessment button (shown on the last step, disabled while loading):
\* onSubmit up to the await of axios.post
Submit ==
    /\ ~crashed /\ route = "/assess"
    /\ activeStep = 3
    /\ ~formLoading
    /\ Len(assessInFlight) < MaxAssessInFlight
    /\ formLoading' = TRUE
    /\ formError' = ""
    /\ assessInFlight' = Append(assessInFlight, [owner |-> "live", overlapped |-> FALSE])
    /\ UNCHANGED <<appVars, route, crashed, activeStep, formValues, metalsInFlight,
                   toolVars, viewVars>>

\* the requests that stay in flight while a completion is handled
Overlapped(requests) ==
    [i \in 1..Len(requests) |-> [requests[i] EXCEPT !.overlapped = TRUE]]

\* onSubmit after the await, with a handler that appends to the history of
\* the render the request was submitted in: the record appended while the
\* request was in flight is overwritten
\* (setAssessmentHistory([assessmentData, ...assessmentHistory.slice(0, 9)]))
AssessSuccessStaleClosure(k, assessmentData) ==
    /\ ~crashed
    /\ k \in 1..Len(assessInFlight)
    /\ Len(completed) < MaxCompleted
    /\ currentAssessment' = Some(assessmentData)
    /\ assessmentHistory' =
          IF assessInFlight[k].overlapped
          THEN <<assessmentData>> \o Slice9(Tail(assessmentHistory))
          ELSE <<assessmentData>> \o Slice9(assessmentHistory)
    /\ completed' = <<assessmentData>> \o completed
    /\ IF route = "/"
       THEN dashboardStats' = DashboardEffect(dashboardStats, assessmentHistory')
       ELSE UNCHANGED dashboardStats
    /\ assessInFlight' = Overlapped(RemoveAt(assessInFlight, k))
    /\ IF assessInFlight[k].owner = "live"
       THEN activeStep' = 0 /\ formLoading' = FALSE
       ELSE UNCHANGED <<activeStep, formLoading>>
    /\ UNCHANGED <<route, crashed, formError, formValues, metalsInFlight, toolVars,
                   severity>>

\* onSubmit after the await: request k is answered with a record
\* (onAssessmentComplete(response.data); setActiveStep(0); finally setLoading(false))
AssessSuccess(k, assessmentData) ==
    /\ ~crashed
    /\ k \in 1..Len(assessInFlight)
    /\ Len(completed) < MaxCompleted
    /\ handleAssessmentComplete(assessmentData)
    /\ IF route = "/"
       THEN dashboardStats' = DashboardEffect(dashboardStats, assessmentHistory')
       ELSE UNCHANGED dashboardStats
    /\ assessInFlight' = Overlapped(RemoveAt(assessInFlight, k))
    /\ IF assessInFlight[k].owner = "live"
       THEN activeStep' = 0 /\ formLoading' = FALSE
       ELSE UNCHANGED <<activeStep, formLoading>>
    /\ UNCHANGED <<route, crashed, formError, formValues, metalsInFlight, toolVars,
                   severity>>

AssessError == "An error occurred during assessment"

\* onSubmit with setActiveStep(0) moved to the finally block: a failure
\* resets the wizard as a success does
AssessFailureResetting(k) ==
    /\ ~crashed
    /\ k \in 1..Len(assessInFlight)
    /\ assessInFlight' = RemoveAt(assessInFlight, k)
    /\ IF assessInFlight[k].owner = "live"
       THEN formError' = AssessError /\ formLoading' = FALSE /\ activeStep' = 0
       ELSE UNCHANGED <<formError, formLoading, activeStep>>
    /\ UNCHANGED <<appVars, route, crashed, formValues, metalsInFlight, toolVars, viewVars>>

\* onSubmit after the await: request k failed
\* (catch: setError(...); finally setLoading(false))
AssessFailure(k) ==
    /\ ~crashed
    /\ k \in 1..Len(assessInFlight)
    /\ assessInFlight' = RemoveAt(assessInFlight, k)
    /\ IF assessInFlight[k].owner = "live"
       THEN formError' = AssessError /\ formLoading' = FALSE
       ELSE UNCHANGED <<formError, formLoading>>
    /\ UNCHANGED <<appVars, route, crashed, activeStep, formValues, metalsInFlight,
                   toolVars, viewVars>>

Init ==
    /\ assessmentHistory = <<>>
    /\ currentAssessment = Null
    /\ route = "/"
    /\ crashed = FALSE
    /\ activeStep = 0
    /\ formLoading = FALSE
    /\ formError = ""
    /\ assessInFlight = <<>>
    /\ formValues = defaultValues
    /\ metalsInFlight = <<>>
    /\ availableAssessments = <<>>
    /\ selectedAssessments = <<>>
    /\ comparisonResults = Null
    /\ loading = FALSE
    /\ error = ""
    /\ compareInFlight = <<>>
    /\ completed = assessmentHistory
    /\ dashboardStats = InitialStats
    /\ severity = NoSeverity

Next ==
    \/ \E r \in Routes : Navigate(r)
    \/ ClickNext
    \/ ClickBack
    \/ Submit
    \/ \E k \in 1..MaxAssessInFlight, a \in Catalog : AssessSuccess(k, a)
    \/ \E k \in 1..MaxAssessInFlight : AssessFailure(k)

\* the application as App wires it
Spec == Init /\ [][Next]_vars

----------------------------------------------------------------------------
(* ComparisonTool under a parent that passes assessmentHistory, the prop   *)
(* its signature declares; assessmentHistory is the prop's value.          *)

\* the parent's history receives a record while the ComparisonTool is
\* mounted: the prop changes and the useEffect recomputes the available list
HistoryArrives(assessmentData) ==
    /\ ToolMounted
    /\ Len(assessmentHistory) < MaxToolHistory
    /\ handleAssessmentComplete(assessmentData)
    /\ availableAssessments' = ValidAssessments(assessmentHistory')
    /\ crashed' = RenderThrows(availableAssessments', selectedAssessments)
    /\ UNCHANGED <<route, formVars, selectedAssessments, comparisonResults, loading,
                   error, compareInFlight, viewVars>>

\* the page is left and entered again: a fresh ComparisonTool is mounted
ToolRemount ==
    /\ ToolMounted
    /\ MountComparisonTool(Some(assessmentHistory))
    /\ UNCHANGED <<appVars, route, formVars, viewVars>>

InitTool ==
    /\ assessmentHistory = <<>>
    /\ currentAssessment = Null
    /\ route = "/compare"
    /\ crashed = FALSE
    /\ activeStep = 0
    /\ formLoading = FALSE
    /\ formError = ""
    /\ assessInFlight = <<>>
    /\ formValues = defaultValues
    /\ metalsInFlight = <<>>
    /\ availableAssessments = <<>>
    /\ selectedAssessments = <<>>
    /\ comparisonResults = Null
    /\ loading = FALSE
    /\ error = ""
    /\ compareInFlight = <<>>
    /\ completed = assessmentHistory
    /\ dashboardStats = InitialStats
    /\ severity = NoSeverity

\* what the user can do on the page, and what can happen to it
NextTool ==
    \/ \E a \in Catalog : HistoryArrives(a)
    \/ \E i \in 0..(MaxToolHistory - 1) : ClickAdd(i)
    \/ \E i \in 0..(MaxToolHistory - 1) : ClickRemove(i)
    \/ ClickCompare
    \/ \E k \in 1..MaxCompareInFlight : CompareSuccess(k)
    \/ \E k \in 1..MaxCompareInFlight, m \in CompareErrors : CompareFailure(k, m)
    \/ ToolRemount

SpecTool == InitTool /\ [][NextTool]_vars

\* the handlers of the page called in any state of the mounted component
NextHandlers ==
    \/ \E a \in HandlerCatalog : HistoryArrives(a)
    \/ \E i \in 0..(MaxToolHistory - 1) : ToolMounted /\ handleAddAssessment(i)
    \/ \E i \in 0..(MaxToolHistory - 1) : ToolMounted /\ handleRemoveAssessment(i)
    \/ ToolMounted /\ runComparison
    \/ \E k \in 1..MaxCompareInFlight : CompareSuccess(k)
    \/ \E k \in 1..MaxCompareInFlight, m \in CompareErrors : CompareFailure(k, m)
    \/ ToolRemount

SpecHandlers == InitTool /\ [][NextHandlers]_vars

----------------------------------------------------------------------------
(* The comparison table as a function of its inputs: the page holds 2 to 4 *)
(* records drawn from TableCatalog, all of them selected in order.         *)

InitTable ==
    /\ \/ \E n \in 2..4 : assessmentHistory \in [1..n -> TableCatalog]
       \/ \E others \in OtherChoices : assessmentHistory = ExampleRecords(others)
    /\ currentAssessment = Some(assessmentHistory[1])
    /\ route = "/compare"
    /\ crashed = FALSE
    /\ activeStep = 0
    /\ formLoading = FALSE
    /\ formError = ""
    /\ assessInFlight = <<>>
    /\ formValues = defaultValues
    /\ metalsInFlight = <<>>
    /\ availableAssessments = ValidAssessments(assessmentHistory)
    /\ selectedAssessments = [i \in 1..Len(availableAssessments) |-> i - 1]
    /\ comparisonResults = Null
    /\ loading = FALSE
    /\ error = ""
    /\ compareInFlight = <<>>
    /\ completed = assessmentHistory
    /\ dashboardStats = InitialStats
    /\ severity = NoSeverity

NextTable ==
    \/ ClickCompare
    \/ \E k \in 1..MaxCompareInFlight : CompareSuccess(k)

SpecTable == InitTable /\ [][NextTable]_vars

----------------------------------------------------------------------------
(* The selection on a fixed history of distinct records: the user adds and *)
(* removes records and runs comparisons.                                   *)

InitSelect ==
    /\ assessmentHistory = SelectHistory
    /\ currentAssessment = Some(SelectHistory[1])
    /\ route = "/compare"
    /\ crashed = FALSE
    /\ activeStep = 0
    /\ formLoading = FALSE
    /\ formError = ""
    /\ assessInFlight = <<>>
    /\ formValues = defaultValues
    /\ metalsInFlight = <<>>
    /\ availableAssessments = ValidAssessments(assessmentHistory)
    /\ selectedAssessments = <<>>
    /\ comparisonResults = Null
    /\ loading = FALSE
    /\ error = ""
    /\ compareInFlight = <<>>
    /\ completed = assessmentHistory
    /\ dashboardStats = InitialStats
    /\ severity = NoSeverity

NextSelect ==
    \/ \E i \in 0..(MaxToolHistory - 1) : ClickAdd(i)
    \/ \E i \in 0..(MaxToolHistory - 1) : ClickRemove(i)
    \/ ClickCompare
    \/ \E k \in 1..MaxCompareInFlight : CompareSuccess(k)
    \/ \E k \in 1..MaxCompareInFlight, m \in CompareErrors : CompareFailure(k, m)
    \/ \E a \in HandlerCatalog : HistoryArrives(a)

SpecSelect == InitSelect /\ [][NextSelect]_vars

----------------------------------------------------------------------------
(* The wizard: the AssessmentForm on screen, the user filling its fields,  *)
(* stepping and submitting.                                                *)

InitWizard ==
    /\ assessmentHistory = <<>>
    /\ currentAssessment = Null
    /\ route = "/assess"
    /\ crashed = FALSE
    /\ activeStep = 0
    /\ formLoading = FALSE
    /\ formError = ""
    /\ assessInFlight = <<>>
    /\ formValues = defaultValues
    /\ metalsInFlight = <<>>
    /\ availableAssessments = <<>>
    /\ selectedAssessments = <<>>
    /\ comparisonResults = Null
    /\ loading = FALSE
    /\ error = ""
    /\ compareInFlight = <<>>
    /\ completed = assessmentHistory
    /\ dashboardStats = InitialStats
    /\ severity = NoSeverity

NextWizard ==
    \/ \E name \in Fields : \E value \in InputsOf(name) : SetValue(name, value)
    \/ \E typical \in TypicalEnergy : MetalPropertiesArrive(1, typical)
    \/ ClickNext
    \/ ClickBack
    \/ Submit
    \/ \E a \in HandlerCatalog : AssessSuccess(1, a)
    \/ AssessFailure(1)

SpecWizard == InitWizard /\ [][NextWizard]_vars

----------------------------------------------------------------------------
(* The severity colours as functions of a metric value: a value of a       *)
(* tracked metric is drawn and the pages colour it.                        *)

InitColors ==
    /\ assessmentHistory = <<>>
    /\ currentAssessment = Null
    /\ route = "/"
    /\ crashed = FALSE
    /\ activeStep = 0
    /\ formLoading = FALSE
    /\ formError = ""
    /\ assessInFlight = <<>>
    /\ formValues = defaultValues
    /\ metalsInFlight = <<>>
    /\ availableAssessments = <<>>
    /\ selectedAssessments = <<>>
    /\ comparisonResults = Null
    /\ loading = FALSE
    /\ error = ""
    /\ compareInFlight = <<>>
    /\ completed = <<>>
    /\ dashboardStats = InitialStats
    /\ \E v \in 0..MaxSeverityValue, m \in lowerIsBetter \cup higherIsBetter :
          severity = [NoSeverity EXCEPT !.value = v, !.metric = m]

NextColors == RenderChip \/ RenderImpact \/ RenderGauge

SpecColors == InitColors /\ [][NextColors]_vars

----------------------------------------------------------------------------
(* Properties of the comparison table (SpecTable) *)

\* the records the table is rendered from
TableRecords == SelectedRecords(availableAssessments, selectedAssessments)

\* a comparison of 2 to 4 records is on screen
ComparisonOn2To4 == TableShown /\ Len(selectedAssessments) \in 2..4

IsMinimumOf(v, values) ==
    /\ \E i \in 1..Len(values) : values[i] = v
    /\ \A i \in 1..Len(values) : v <= values[i]

IsMaximumOf(v, values) ==
    /\ \E i \in 1..Len(values) : values[i] = v
    /\ \A i \in 1..Len(values) : v >= values[i]

C2_TieLowestIndex ==
    ComparisonOn2To4 =>
        \A k \in DOMAIN Table :
            LET r == Table[k]
                achieving == {i \in 0..(Len(r.values) - 1) : r.values[i + 1] = r.bestValue}
            IN  /\ r.bestIndex \in achieving
                /\ \A i \in achieving : r.bestIndex <= i

\* a tie for the best value among records none of which is the first
C2_Witness ==
    /\ ComparisonOn2To4
    /\ Table["carbon_footprint"].values = <<80, 40, 40, 80>>
    /\ Table["carbon_footprint"].bestIndex = 1
    /\ Table["sustainability_score"].values = <<60, 85, 85, 85>>

\* the end-to-end example is on screen: carbon_footprint [80,40,60],
\* sustainability_score [70,85,60], every other metric of the table equal
ExampleShown ==
    /\ TableShown
    /\ Len(selectedAssessments) = 3
    /\ Table["carbon_footprint"].values = <<80, 40, 60>>
    /\ Table["sustainability_score"].values = <<70, 85, 60>>
    /\ \A k \in DOMAIN Table \ {"carbon_footprint", "sustainability_score"} :
          /\ Table[k].values[1] = Table[k].values[2]
          /\ Table[k].values[2] = Table[k].values[3]

ComparedRecords == comparisonResults[1].assessments

\* the best value of a metric, from the directionality of the metric
DirectionalBest(k, values) ==
    IF k \in {"carbon_footprint", "energy_consumption", "water_usage"}
    THEN CHOOSE v \in Range(values) : \A w \in Range(values) : v <= w
    ELSE CHOOSE v \in Range(values) : \A w \in Range(values) : v >= w

\* the number of table metrics whose best value record i (0-based) is the
\* first to achieve
WinsOf(i, assessments) ==
    Cardinality({k \in Range(metrics) :
        LET values == ValuesOf(k, assessments)
        IN  /\ values[i + 1] = DirectionalBest(k, values)
            /\ \A j \in 1..i : values[j] # DirectionalBest(k, values)})

CarbonOf(i, assessments) ==
    IF "carbon_footprint" \in DOMAIN assessments[i + 1].results
    THEN assessments[i + 1].results["carbon_footprint"]
    ELSE 0

C5_IndicesInSelection ==
    ComparisonOn2To4 =>
        LET n == Len(selectedAssessments)
        IN  /\ comparisonResults[1].overall_best \in 0..(n - 1)
            /\ \A k \in DOMAIN Table :
                  /\ Table[k].bestIndex \in 0..(n - 1)
                  /\ Table[k].values[Table[k].bestIndex + 1] = Table[k].bestValue
                  /\ Table[k].bestLabel = <<"Option", Table[k].bestIndex + 1>>

\* four records whose carbon winner is the last one and whose sustainability
\* winner is the first one
C5_Witness ==
    /\ ComparisonOn2To4
    /\ Len(selectedAssessments) = 4
    /\ Table["carbon_footprint"].bestIndex = 3
    /\ Table["sustainability_score"].bestIndex = 0
    /\ comparisonResults[1].overall_best = 3

\* the improvement percentage the comparison is to report for a
\* non-baseline value, as the fraction num / den
DirectionalImprovement(k, value, baseline) ==
    IF k \in lowerIsBetter
    THEN [num |-> (baseline - value) * 100, den |-> baseline]
    ELSE [num |-> (value - baseline) * 100, den |-> baseline]

\* equality of two fractions with nonzero denominators
FracEqual(f, g) == f.num * g.den = g.num * f.den

\* value is strictly better than baseline in the direction of metric k
BetterThan(k, value, baseline) ==
    IF k \in lowerIsBetter THEN value < baseline ELSE value > baseline

\* C6: for every non-baseline record, the improvement against a nonzero
\* baseline is (baseline - value) / baseline * 100 for a lower-is-better
\* metric and (value - baseline) / baseline * 100 for a higher-is-better
\* metric, so a record better than the baseline has a positive improvement.
C6_Claim ==
    ComparisonOn2To4 =>
        \A k \in DOMAIN Table :
            \A i \in 2..Len(Table[k].values) :
                LET baseline == Table[k].values[1]
                    value == Table[k].values[i]
                    improvement == Table[k].improvement[i][1]
                IN  baseline # 0 =>
                        /\ FracEqual(improvement, DirectionalImprovement(k, value, baseline))
                        /\ BetterThan(k, value, baseline) => FracGreater(improvement, 0)

\* C7: when the baseline value of a metric is 0, the improvement of every
\* other record on that metric is null: no trend is derived from a division
\* by zero.
C7_Claim ==
    ComparisonOn2To4 =>
        \A k \in DOMAIN Table :
            Table[k].values[1] = 0 =>
                \A i \in 2..Len(Table[k].values) :
                    /\ Table[k].improvement[i] = Null
                    /\ Table[k].icon[i] = Null

\* the record with metric k measured as 0
WithMeasuredZero(assessment, k) ==
    [assessment EXCEPT !.results =
        [x \in (DOMAIN assessment.results) \cup {k} |->
            IF x = k THEN 0 ELSE assessment.results[x]]]

\* C8: a record that lacks a metric's key contributes 0 to that metric, and
\* the row of the metric marks the comparison incomplete, so that it differs
\* from the row of the same comparison with the value measured as 0.
C8_Claim ==
    ComparisonOn2To4 =>
        \A k \in DOMAIN Table :
            \A i \in 1..Len(TableRecords) :
                k \notin DOMAIN TableRecords[i].results =>
                    /\ Table[k].values[i] = 0
                    /\ Table[k] # Row(k, [TableRecords EXCEPT ![i] = WithMeasuredZero(@, k)],
                                      selectedAssessments)

----------------------------------------------------------------------------
(* Properties of the handlers of ComparisonTool (SpecHandlers) *)

\* C9: a comparison request carries 2 to 4 records; runComparison with fewer
\* than 2 selected reports the selection error, sends no request and leaves
\* the comparison result unchanged; no addition or removal leaves more than 4
\* selected.
C9_SelectionBounds ==
    [][ /\ Len(selectedAssessments') <= 4
        /\ \A k \in 1..Len(compareInFlight') : Len(compareInFlight'[k]) \in 2..4
        /\ (Len(selectedAssessments) < 2 /\ runComparison) =>
              /\ error' = SelectError
              /\ compareInFlight' = compareInFlight
              /\ comparisonResults' = comparisonResults
      ]_vars

\* runComparison was refused, and later the selection was filled to 4 with a
\* fifth record still on offer
C9_Witness ==
    /\ error = SelectError
    /\ Len(selectedAssessments) = 4
    /\ Len(availableAssessments) = 5
    /\ compareInFlight = <<>>
    /\ comparisonResults = Null

----------------------------------------------------------------------------
(* Properties of the application (Spec) *)

\* C10: on the comparison page the records on offer are exactly the records
\* of the history with non-empty results, in history order, and every record
\* of a comparison request has non-empty results.
C10_Claim ==
    route = "/compare" =>
        /\ availableAssessments = ValidAssessments(assessmentHistory)
        /\ \A k \in 1..Len(compareInFlight) :
              \A i \in 1..Len(compareInFlight[k]) :
                  /\ compareInFlight[k][i] # Null
                  /\ compareInFlight[k][i][1].hasResults
                  /\ DOMAIN compareInFlight[k][i][1].results # {}

\* C11: after any sequence of assessment completions the history holds at
\* most 10 records and is the most recent min(n, 10) of the n completed
\* assessments, newest first: each completion is at index 0, the earlier ones
\* follow shifted by one, and only the oldest is evicted.
C11_HistoryNewestTen ==
    LET n == Len(completed)
    IN  /\ Len(assessmentHistory) <= 10
        /\ Len(assessmentHistory) = IF n < 10 THEN n ELSE 10
        /\ \A i \in 1..Len(assessmentHistory) : assessmentHistory[i] = completed[i]

\* an eleventh completion evicted the oldest record of a full history
C11_Witness ==
    /\ Len(completed) = 11
    /\ Len(assessmentHistory) = 10
    /\ completed[11] = RecA
    /\ assessmentHistory[10] = RecEmpty
    /\ assessmentHistory[1] = RecA

\* C12: a record in history is never modified: a step that is not a
\* completion (a navigation, a dashboard aggregation, a selection, a
\* comparison) leaves the history unchanged, and a completion leaves every
\* record that stays in history with the content it had, one position later.
C12_RecordsNeverModified ==
    [][ IF completed' = completed
        THEN assessmentHistory' = assessmentHistory
        ELSE /\ Len(assessmentHistory') <= Len(assessmentHistory) + 1
             /\ \A i \in 2..Len(assessmentHistory') :
                   assessmentHistory'[i] = assessmentHistory[i - 1]
      ]_vars

\* the dashboard aggregated a full history whose oldest record went through
\* nine later completions
C12_Witness ==
    /\ DashboardMounted
    /\ dashboardStats.totalAssessments = 10
    /\ Len(completed) = 10
    /\ assessmentHistory[10] = RecA
    /\ \A i \in 1..9 : assessmentHistory[i] = RecEmpty

----------------------------------------------------------------------------
(* Properties of the Dashboard statistics (Spec) *)

RECURSIVE SumPresent(_, _)
\* the sum of the present values of a metric over a list of records
SumPresent(history, key) ==
    IF history = <<>> THEN 0
    ELSE (IF key \in DOMAIN Head(history).results THEN Head(history).results[key] ELSE 0)
         + SumPresent(Tail(history), key)

\* the number q is the mean of the metric over the list of records
IsMeanOf(q, history, key) ==
    /\ q.den # 0
    /\ q.num * Len(history) = SumPresent(history, key) * q.den

\* C13: for a non-empty history, each dashboard average (carbon footprint,
\* sustainability score, circularity index) is the sum of the metric's present
\* values over all history records divided by the number of records, and the
\* total-assessments count is the history length.
C13_DashboardAverages ==
    (DashboardMounted /\ Len(assessmentHistory) > 0) =>
        /\ dashboardStats.totalAssessments = Len(assessmentHistory)
        /\ IsMeanOf(dashboardStats.avgCarbonFootprint, assessmentHistory, "carbon_footprint")
        /\ IsMeanOf(dashboardStats.avgSustainabilityScore, assessmentHistory, "sustainability_score")
        /\ IsMeanOf(dashboardStats.avgCircularityIndex, assessmentHistory, "circularity_index")

\* the dashboard shows a history of three records, one of which lacks every
\* metric: carbon footprint 160 / 3, sustainability score 140 / 3
C13_Witness ==
    /\ DashboardMounted
    /\ assessmentHistory = <<RecA, RecEmpty, RecA>>
    /\ dashboardStats.totalAssessments = 3
    /\ dashboardStats.avgCarbonFootprint = Quotient(160, 3)
    /\ dashboardStats.avgSustainabilityScore = Quotient(140, 3)

\* the JavaScript number q is 0 (and not the NaN of 0 / 0)
IsZero(q) == q.den # 0 /\ q.num = 0

\* C14: aggregating an empty history yields dashboard statistics whose
\* fields are all 0, and no division by zero is performed.
C14_EmptyHistoryAllZero ==
    (DashboardMounted /\ assessmentHistory = <<>>) =>
        /\ dashboardStats.totalAssessments = 0
        /\ IsZero(dashboardStats.avgCarbonFootprint)
        /\ IsZero(dashboardStats.avgSustainabilityScore)
        /\ IsZero(dashboardStats.avgCircularityIndex)

\* the Dashboard was mounted again on an empty history while two
\* submissions of the form it was left for are unanswered
C14_Witness ==
    /\ DashboardMounted
    /\ assessmentHistory = <<>>
    /\ Len(assessInFlight) = 2
    /\ \A k \in 1..2 : assessInFlight[k].owner = "stale"
    /\ dashboardStats = InitialStats

\* the most recent min(n, 10) of the n completed assessments
LatestTen(log) == SubSeq(log, 1, IF Len(log) < 10 THEN Len(log) ELSE 10)

\* the statistics are those of a full recomputation over the list of records
IsRecomputationOver(stats, history) ==
    /\ stats.totalAssessments = Len(history)
    /\ IF history = <<>>
       THEN /\ IsZero(stats.avgCarbonFootprint)
            /\ IsZero(stats.avgSustainabilityScore)
            /\ IsZero(stats.avgCircularityIndex)
       ELSE /\ IsMeanOf(stats.avgCarbonFootprint, history, "carbon_footprint")
            /\ IsMeanOf(stats.avgSustainabilityScore, history, "sustainability_score")
            /\ IsMeanOf(stats.avgCircularityIndex, history, "circularity_index")

\* C15: the dashboard statistics are never stale: whatever completions came
\* before, evictions included, the statistics on screen are a full
\* recomputation over the most recent 10 completed assessments, so they do not
\* depend on evicted records or on the statistics shown before.
C15_StatsNeverStale ==
    DashboardMounted => IsRecomputationOver(dashboardStats, LatestTen(completed))

\* the only record with a carbon footprint was evicted by the eleventh
\* completion, and the dashboard shows the mean 0 over the ten that remain
C15_Witness ==
    /\ DashboardMounted
    /\ Len(completed) = 11
    /\ completed[11] = RecA
    /\ \A i \in 1..10 : completed[i] = RecEmpty
    /\ dashboardStats.totalAssessments = 10
    /\ dashboardStats.avgCarbonFootprint = Quotient(0, 10)

----------------------------------------------------------------------------
(* Properties of the severity colours (SpecColors) *)

\* the band a colour stands for
BandOf(color) ==
    IF color \in {"success", "#4caf50"} THEN "good"
    ELSE IF color \in {"warning", "#ff9800"} THEN "warning"
    ELSE IF color \in {"error", "#f44336"} THEN "poor"
    ELSE "none"

\* C16: the banding function maps a value of a lower-is-better metric to good
\* if value < 50, warning if 50 <= value < 100 and poor otherwise, and a value
\* of a higher-is-better metric to good if value > 80, warning if
\* 60 < value <= 80 and poor otherwise; the boundary values 50, 100, 60 and 80
\* fall in the less favourable band.
C16_Banding ==
    severity.chip # Null =>
        LET v == severity.value
            band == BandOf(severity.chip[1])
        IN  /\ severity.metric \in {"carbon_footprint", "energy_consumption",
                                    "water_usage", "waste_generation"} =>
                  /\ band = "good" <=> v < 50
                  /\ band = "warning" <=> (50 <= v /\ v < 100)
                  /\ band = "poor" <=> v >= 100
            /\ severity.metric \in {"sustainability_score", "circularity_index",
                                    "material_efficiency", "recycling_potential"} =>
                  /\ band = "good" <=> v > 80
                  /\ band = "warning" <=> (60 < v /\ v <= 80)
                  /\ band = "poor" <=> v <= 60

\* the boundary value 100 of a lower-is-better metric was banded poor
C16_Witness ==
    /\ severity.metric = "waste_generation"
    /\ severity.value = 100
    /\ severity.chip = Some("error")

\* C17: every place that derives a severity colour from a metric value gives
\* the band of the banding function: for a carbon-footprint value and for a
\* sustainability value on the 0-100 scale, the dashboard's impact colour and
\* the visualization gauge are in the band of the comparison table's chip.
C17_Claim ==
    (/\ severity.metric \in {"carbon_footprint", "sustainability_score"}
     /\ severity.metric = "sustainability_score" => severity.value <= 100
     /\ severity.chip # Null) =>
        /\ severity.impact # Null => BandOf(severity.impact[1]) = BandOf(severity.chip[1])
        /\ severity.gauge # Null => BandOf(severity.gauge[1]) = BandOf(severity.chip[1])

----------------------------------------------------------------------------
(* Properties of the selection and its comparisons (SpecSelect) *)

\* the values of a metric over an ordered list of records, 0 where absent
MetricValues(k, records) ==
    [i \in 1..Len(records) |->
        IF k \in DOMAIN records[i].results THEN records[i].results[k] ELSE 0]

\* the first position (0-based) of x in values
FirstPosition(values, x) ==
    CHOOSE i \in 0..(Len(values) - 1) :
        /\ values[i + 1] = x
        /\ \A j \in 0..(i - 1) : values[j + 1] # x

\* the overall best of an ordered list of records: most wins, then least
\* carbon footprint, then least index
RankedFirst(records) ==
    CHOOSE b \in 0..(Len(records) - 1) :
        \A j \in (0..(Len(records) - 1)) \ {b} :
            \/ WinsOf(b, records) > WinsOf(j, records)
            \/ /\ WinsOf(b, records) = WinsOf(j, records)
               /\ CarbonOf(b, records) < CarbonOf(j, records)
            \/ /\ WinsOf(b, records) = WinsOf(j, records)
               /\ CarbonOf(b, records) = CarbonOf(j, records)
               /\ b < j

\* C18: compare is deterministic and stateless: the per-metric winners and
\* improvements on screen are a function of the ordered list of selected
\* records alone, and the overall best of a response is a function of the
\* ordered list of records of its request alone, whatever comparison,
\* selection change or history change came before.
C18_FunctionOfInput ==
    TableShown =>
        /\ Len(selectedAssessments) \in 2..4 => \A k \in DOMAIN Table :
              LET values == MetricValues(k, TableRecords)
                  best == DirectionalBest(k, values)
              IN  /\ Table[k].values = values
                  /\ Table[k].bestValue = best
                  /\ Table[k].bestIndex = FirstPosition(values, best)
                  /\ \A i \in 2..Len(values) :
                        Table[k].improvement[i] =
                            <<[num |-> (values[1] - values[i]) * 100, den |-> values[1]]>>
        /\ comparisonResults[1].overall_best = RankedFirst(ComparedRecords)
        /\ comparisonResults[1].win_count =
              [i \in 1..Len(ComparedRecords) |-> WinsOf(i - 1, ComparedRecords)]

\* a response to a two-record comparison is on screen after the history
\* grew and a third record was selected, and the next comparison is in flight
C18_Witness ==
    /\ TableShown
    /\ Len(assessmentHistory) = 5
    /\ Len(selectedAssessments) = 3
    /\ Len(ComparedRecords) = 2
    /\ TableRecords[1] # ComparedRecords[1]
    /\ loading

\* the position (1-based) of an index in a selection
PositionIn(selected, index) == CHOOSE p \in 1..Len(selected) : selected[p] = index

\* the improvements of the table of a selection are computed against the
\* value of the record at the first position of the selection
BaselineIsFirst(available, selected) ==
    LET ValueAt(i, k) ==
            IF k \in DOMAIN available[selected[i] + 1].results
            THEN available[selected[i] + 1].results[k]
            ELSE 0
    IN  \A k \in Range(metrics) :
            Row(k, SelectedRecords(available, selected), selected).improvement =
                [i \in 1..Len(selected) |->
                    IF i = 1 THEN Null
                    ELSE Some([num |-> (ValueAt(1, k) - ValueAt(i, k)) * 100,
                               den |-> ValueAt(1, k)])]

\* C19: the baseline of every improvement is the first record of the
\* selection in the order the records were selected: an addition puts the
\* new record after all those selected before it, a removal keeps the
\* relative order of the records that remain, no other step reorders the
\* selection, and the improvements on screen are computed against the value
\* of the record at the first position.
C19_BaselineIsFirstSelected ==
    [][ /\ Len(selectedAssessments') > Len(selectedAssessments) =>
              /\ Len(selectedAssessments') = Len(selectedAssessments) + 1
              /\ SubSeq(selectedAssessments', 1, Len(selectedAssessments)) = selectedAssessments
        /\ Len(selectedAssessments') < Len(selectedAssessments) =>
              /\ Range(selectedAssessments') \subseteq Range(selectedAssessments)
              /\ \A p, q \in 1..Len(selectedAssessments') :
                    p < q => PositionIn(selectedAssessments, selectedAssessments'[p])
                               < PositionIn(selectedAssessments, selectedAssessments'[q])
        /\ Len(selectedAssessments') = Len(selectedAssessments) =>
              selectedAssessments' = selectedAssessments
        /\ (comparisonResults' # Null /\ ~crashed' /\ Len(selectedAssessments') \in 2..4) =>
              BaselineIsFirst(availableAssessments', selectedAssessments')
      ]_vars

\* the third record offered was selected before the first one and is the
\* baseline of the comparison on screen: carbon footprint 0 against 80
C19_Witness ==
    /\ TableShown
    /\ assessmentHistory = SelectHistory
    /\ selectedAssessments = <<2, 0>>
    /\ Table["carbon_footprint"].values = <<0, 80>>
    /\ Table["carbon_footprint"].improvement[2] = Some([num |-> -8000, den |-> 0])

----------------------------------------------------------------------------
(* Properties of concurrent completions (Spec) *)

\* C21: appends to the history are serialized: every completion, whatever
\* other requests are in flight and in whatever order they are answered, puts
\* its record before the history as the previous completion left it and
\* evicts only beyond 10, so the history is the appends applied one after
\* another in the order of arrival and no completed record is lost.
C21_AppendsSerialized ==
    [][ completed' # completed =>
          LET a == completed'[1]
          IN  /\ completed' = <<a>> \o completed
              /\ assessmentHistory' = LatestTen(<<a>> \o assessmentHistory)
              /\ Len(assessmentHistory') <= 10
              /\ \A i \in 1..Len(assessmentHistory) :
                    i < 10 => assessmentHistory'[i + 1] = assessmentHistory[i]
      ]_vars

\* a completion evicted the oldest record of a full history while another
\* request, submitted before it arrived, is still in flight
C21_Witness ==
    /\ Len(assessInFlight) = 1
    /\ assessInFlight[1].overlapped
    /\ Len(completed) = 11
    /\ Len(assessmentHistory) = 10
    /\ assessmentHistory[1] = RecA
    /\ assessmentHistory[2] = RecEmpty

----------------------------------------------------------------------------
(* Properties of the wizard (SpecWizard) *)

\* C22: in the wizard a forward transition out of a step is taken only when
\* the rules of that step's fields hold, so the Review step is never reached
\* while metal type, production route or quantity is missing or invalid.
C22_Claim ==
    [][ activeStep' = activeStep + 1 => StepValid(activeStep, formValues) ]_vars

----------------------------------------------------------------------------
(* Properties of the selection (SpecHandlers) *)

\* no index occurs twice in the selection
NoDuplicate(selected) ==
    \A i, j \in 1..Len(selected) : selected[i] = selected[j] => i = j

\* C23: after any sequence of add and remove operations the selection holds
\* no index twice and at most 4 indices; the selection grows only by one index
\* that was not selected, and only while fewer than 4 are selected; adding an
\* index that is already selected, or adding when 4 are selected, leaves the
\* selection unchanged.
C23_SelectionNoDuplicates ==
    [][ /\ NoDuplicate(selectedAssessments')
        /\ Len(selectedAssessments') <= 4
        /\ Len(selectedAssessments') > Len(selectedAssessments) =>
              /\ Len(selectedAssessments) < 4
              /\ \E i \in 0..(MaxToolHistory - 1) :
                    /\ ~Includes(selectedAssessments, i)
                    /\ selectedAssessments' = Append(selectedAssessments, i)
        /\ \A i \in 0..(MaxToolHistory - 1) :
              (/\ Includes(selectedAssessments, i) \/ Len(selectedAssessments) = 4
               /\ handleAddAssessment(i))
              => selectedAssessments' = selectedAssessments
      ]_vars

\* four of five records are selected, index 0 after it was removed and added
\* again
C23_Witness ==
    /\ ToolMounted
    /\ Len(availableAssessments) = 5
    /\ selectedAssessments = <<1, 2, 3, 0>>

----------------------------------------------------------------------------
(* Properties of the selection while the history changes (SpecSelect) *)

\* C24: every index in the selection is at all times a valid index into the
\* list of available assessments, and an index that stays selected denotes
\* after every step the record it denoted before it, also when the history
\* receives a record while the selection is kept.
C24_Claim ==
    [][ /\ \A i \in Range(selectedAssessments') : At(availableAssessments', i) # Null
        /\ \A i \in Range(selectedAssessments) \cap Range(selectedAssessments') :
              At(availableAssessments', i) = At(availableAssessments, i)
      ]_vars

\* C25: whenever a comparison result is on screen it was produced by a
\* comparison over exactly the currently selected list of records: adding as
\* well as removing a record discards the previous result until a new
\* comparison is run.
C25_Claim ==
    TableShown =>
        /\ Len(ComparedRecords) = Len(selectedAssessments)
        /\ \A i \in 1..Len(selectedAssessments) :
              At(availableAssessments, selectedAssessments[i]) = Some(ComparedRecords[i])

\* C26: whenever a comparison result is present at least 2 records are
\* selected, in every interleaving of selection changes with a comparison
\* request in flight: a response that arrives after a record was removed
\* during the request establishes no result for fewer than 2 records.
C26_Claim ==
    (ToolMounted /\ comparisonResults # Null) => Len(selectedAssessments) >= 2

----------------------------------------------------------------------------
(* Properties of the steps and the submission (SpecWizard, Spec) *)

\* C27: after any sequence of Next, Back and submit actions the rendered
\* wizard allows, the active step stays within 0..3: no step goes back from
\* step 0 or forward from the last step, a step moves by one, and a successful
\* submission returns the wizard to step 0.
C27_ActiveStepInRange ==
    [][ /\ activeStep \in BasicInfo..Review
        /\ activeStep' \in BasicInfo..Review
        /\ activeStep = BasicInfo => activeStep' \in {BasicInfo, ProductionDetails}
        /\ activeStep = Review => activeStep' \in {Review, EnvironmentalData, BasicInfo}
        /\ completed' = completed =>
              activeStep' \in {activeStep - 1, activeStep, activeStep + 1}
        /\ completed' # completed => activeStep' = BasicInfo
      ]_vars

\* two submissions succeeded and one failed (its error is still shown), and
\* the wizard is at step 0 with no request in flight
C27_Witness ==
    /\ route = "/assess"
    /\ activeStep = BasicInfo
    /\ Len(completed) = 2
    /\ assessInFlight = <<>>
    /\ ~formLoading
    /\ formError = AssessError

\* a request was answered in this step
SubmissionAnswered == Len(assessInFlight') < Len(assessInFlight)

\* the request answered in this step is the one of the form on screen
LiveAnswered ==
    /\ SubmissionAnswered
    /\ \E k \in 1..Len(assessInFlight) : assessInFlight[k].owner = "live"
    /\ \A k \in 1..Len(assessInFlight') : assessInFlight'[k].owner = "stale"

\* C28: a successful submission puts exactly one record, the one received,
\* at the front of the history, makes it the current assessment and resets
\* the wizard to step 0; a failed submission leaves the history, the current
\* assessment and the active step unchanged and sets a non-empty error. The
\* step and the error are those of the form that submitted, while it is on
\* screen.
C28_SubmitOutcome ==
    [][ SubmissionAnswered =>
          IF completed' # completed
          THEN /\ Len(completed') = Len(completed) + 1
               /\ assessmentHistory'[1] = completed'[1]
               /\ Len(assessmentHistory') =
                     IF Len(assessmentHistory) < 10 THEN Len(assessmentHistory) + 1 ELSE 10
               /\ \A i \in 2..Len(assessmentHistory') :
                     assessmentHistory'[i] = assessmentHistory[i - 1]
               /\ currentAssessment' = Some(completed'[1])
               /\ LiveAnswered => activeStep' = BasicInfo
          ELSE /\ assessmentHistory' = assessmentHistory
               /\ currentAssessment' = currentAssessment
               /\ activeStep' = activeStep
               /\ LiveAnswered => formError' # ""
      ]_vars

\* after a successful submission the wizard was stepped to Review again and
\* the next submission failed: the error is shown on the Review step and the
\* history still holds the one record
C28_Witness ==
    /\ route = "/assess"
    /\ activeStep = Review
    /\ formError = AssessError
    /\ ~formLoading
    /\ assessInFlight = <<>>
    /\ assessmentHistory = <<RecA>>
    /\ currentAssessment = Some(RecA)

\* C29: for the assessment submission and for the comparison run the loading
\* flag is true exactly while a request of that kind is in flight, and since
\* the triggering button is disabled while it is true, at most one request of
\* that kind is in flight at a time.
C29_Claim ==
    /\ (route = "/assess" /\ ~crashed) => (formLoading <=> assessInFlight # <<>>)
    /\ Len(assessInFlight) <= 1
    /\ ToolMounted => (loading <=> compareInFlight # <<>>)
    /\ Len(compareInFlight) <= 1

----------------------------------------------------------------------------
(* Properties of the current assessment (Spec) *)

\* C30: in every reachable state the current assessment is null exactly when
\* the history is empty, and otherwise it is the newest record history[0]; so
\* on the visualization and report pages the fallback to the last (oldest)
\* element of the history is never taken with a non-empty history.
C30_CurrentIsNewest ==
    /\ currentAssessment = Null <=> assessmentHistory = <<>>
    /\ assessmentHistory # <<>> => currentAssessment = Some(assessmentHistory[1])
    /\ route \in SelectingRoutes =>
          LET effect == SelectedAssessmentEffect(currentAssessment, assessmentHistory)
          IN  /\ effect.branch # "last"
              /\ assessmentHistory # <<>> =>
                    effect.selectedAssessment = Some(assessmentHistory[1])

\* the visualization page shows the newest record of a full history whose
\* oldest record is a different one
C30_Witness ==
    /\ route = "/visualize"
    /\ ~crashed
    /\ Len(assessmentHistory) = 10
    /\ assessmentHistory[1] = RecEmpty
    /\ assessmentHistory[10] = RecA
    /\ SelectedAssessmentEffect(currentAssessment, assessmentHistory).selectedAssessment
          = Some(RecEmpty)

====
